---------------------------- MODULE Spec2Model ----------------------------
(***************************************************************************)
(* Model of cmd/celestia/main.go: the command-line tool that fetches a     *)
(* block from a core node over the BlockByHeight stream, reassembles it    *)
(* from its parts, extends its data into an extended data square and       *)
(* assembles the extended header.                                          *)
(*                                                                         *)
(* Library calls are modelled by the behaviour of the library at the call  *)
(* site (tendermint types.PartSet, go-square, rsmt2d, strconv).  Sizes are *)
(* scaled: a block part carries at most one byte, a transaction is one    *)
(* byte and fills one share, Go's 64-bit uint is WordBits wide.            *)
(***************************************************************************)
EXTENDS Integers, Sequences, FiniteSets, TLC

\* ------------------------------------------------------------------ bounds
\* Longest stream of fragments the node delivers before the model stops it.
MaxParts == 3
\* Largest row / column number given on the command line.
MaxCoord == 2
\* Largest flat share count handed to extendShares in SpecShares.
MaxShares == 5

\* ------------------------------------------------------- program constants
\* Highest number of arguments main reads: args[0] .. args[4].
MaxArgs == 5
\* Width of Go's uint (64 in the build; scaled for 32-bit model integers).
WordBits == 16
\* appconsts.SquareSizeUpperBound(appVersion) (128 in v3; scaled).
SquareSizeUpperBound == 1
\* Exit status of a Go program that ends in an unrecovered panic.
PanicExit == 2

\* ------------------------------------------------------------ value domains
Byte == {0, 1, 2}
NoErr == "nil"
Running == -1

Pow2(n) == 2 ^ n

RECURSIVE Concat(_)
\* Concatenation of a sequence of byte sequences.
Concat(ss) == IF ss = <<>> THEN <<>> ELSE Head(ss) \o Concat(Tail(ss))

\* --------------------------------------------------------------- wire types
\* tmproto.Part as carried by a response; nil |-> TRUE is a nil BlockPart.
NilPart == [nil |-> TRUE, Index |-> 0, Bytes |-> <<>>]
Part(i, b) == [nil |-> FALSE, Index |-> i, Bytes |-> b]
\* A part's payload: nothing or one byte.
Payloads == {<<>>} \cup {<<b>> : b \in Byte}
WireParts == {Part(i, b) : i \in 0..(MaxParts - 1), b \in Payloads} \cup {NilPart}
\* The commit / validator-set payload of a response.
WireMeta == {"nil", "invalid", "valid"}

\* A command-line token: a decimal integer or some other text.
Num(v) == [numeric |-> TRUE, val |-> v]
Text == [numeric |-> FALSE, val |-> 0]

\* (*types.Block, error) as returned by partsToBlock
NilBlock == [nil |-> TRUE, Height |-> 0, Txs |-> <<>>]
Block(h, txs) == [nil |-> FALSE, Height |-> h, Txs |-> txs]

\* *rsmt2d.ExtendedDataSquare
NilEDS == [nil |-> TRUE, width |-> 0, empty |-> FALSE]
EDS(w, e) == [nil |-> FALSE, width |-> w, empty |-> e]

\* ------------------------------------------------------------ library calls
\* strconv.Atoi
Atoi(tok) ==
    IF tok.numeric THEN [val |-> tok.val, err |-> NoErr]
    ELSE [val |-> 0, err |-> "atoi"]

\* Go's conversion uint(r) of an int.
ToUint(r) == r % Pow2(WordBits)

\* types.CommitFromProto: a nil or invalid commit is an error.
CommitFromProto(c) ==
    IF c = "valid" THEN [ok |-> TRUE, err |-> NoErr]
    ELSE [ok |-> FALSE, err |-> "commit"]

\* types.ValidatorSetFromProto: a nil or invalid validator set is an error.
ValidatorSetFromProto(v) ==
    IF v = "valid" THEN [ok |-> TRUE, err |-> NoErr]
    ELSE [ok |-> FALSE, err |-> "valset"]

\* receiveBlockByHeight's decoding of the first response: the error it returns,
\* the commit's before the validator set's.
FirstPartErr_CommitOnly(c, v) == CommitFromProto(c).err
FirstPartErr(c, v) ==
    IF ~CommitFromProto(c).ok THEN CommitFromProto(c).err
    ELSE IF ~ValidatorSetFromProto(v).ok THEN ValidatorSetFromProto(v).err
    ELSE NoErr

\* PartSet.AddPartWithoutProof on a part set with `total` slots, `slots` being
\* the set of indices already filled: (ok, err).
AddPartWithoutProof(total, slots, part) ==
    IF part.Index >= total THEN [ok |-> FALSE, err |-> "partIndex"]
    ELSE IF part.Index \in slots THEN [ok |-> FALSE, err |-> NoErr]
    ELSE [ok |-> TRUE, err |-> NoErr]

\* io.ReadAll(partSet.GetReader()) on a complete part set: the parts' bytes in
\* slot order.
PartSetReader_Reversed(parts) ==
    Concat([i \in 1..Len(parts) |->
        (CHOOSE p \in {parts[j] : j \in 1..Len(parts)} :
            p.Index = Len(parts) - i).Bytes])
PartSetReader_Receipt(parts) ==
    Concat([i \in 1..Len(parts) |-> parts[i].Bytes])
PartSetReader(parts) ==
    Concat([i \in 1..Len(parts) |->
        (CHOOSE p \in {parts[j] : j \in 1..Len(parts)} :
            p.Index = i - 1).Bytes])

\* proto.Unmarshal + types.BlockFromProto on the buffer.  The body is the
\* height followed by one byte per transaction; a zero transaction byte is a
\* malformed field, a missing or zero height fails Block.ValidateBasic.
Deserialize(bz) ==
    IF \E i \in 2..Len(bz) : bz[i] = 0
    THEN [block |-> NilBlock, err |-> "unmarshal"]
    ELSE IF Len(bz) = 0 \/ bz[1] = 0
    THEN [block |-> NilBlock, err |-> "validate"]
    ELSE [block |-> Block(bz[1], Tail(bz)), err |-> NoErr]


\* ----------------------------------------------------------- partsToBlock
RECURSIVE AddAll(_, _, _, _)
\* The loop of partsToBlock over parts[i..]: "ok" when every part was added,
\* "panic" on a nil part (part.Index), otherwise the (ok, err) that ends it.
AddAll(parts, total, i, slots) ==
    IF i > Len(parts) THEN [end |-> "ok", err |-> NoErr]
    ELSE IF parts[i].nil THEN [end |-> "panic", err |-> NoErr]
    ELSE LET r == AddPartWithoutProof(total, slots, parts[i])
         IN  IF r.err # NoErr THEN [end |-> "err", err |-> r.err]
             ELSE IF ~r.ok THEN [end |-> "declined", err |-> r.err]
             ELSE AddAll(parts, total, i + 1, slots \cup {parts[i].Index})

\* What a call of partsToBlock left behind: whether it returned, the
\* (block, err) pair it returned, and the buffer it read from the part set.
NoCall ==
    [called |-> FALSE, returned |-> FALSE, block |-> NilBlock, err |-> NoErr,
     read |-> FALSE, bz |-> <<>>]
PtbReturn(blk, e, rd, b) ==
    [called |-> TRUE, returned |-> TRUE, block |-> blk, err |-> e,
     read |-> rd, bz |-> b]

partsToBlock(parts) ==
    LET add == AddAll(parts, Len(parts), 1, {})
    IN  IF add.end = "panic"
        THEN [NoCall EXCEPT !.called = TRUE]
        ELSE IF add.end # "ok"
        THEN PtbReturn(NilBlock, add.err, FALSE, <<>>)
        ELSE LET bz == PartSetReader(parts)
                 d  == Deserialize(bz)
             IN  PtbReturn(d.block, d.err, TRUE, bz)

\* ------------------------------------------------------------- extendShares
RECURSIVE BitAnd(_, _)
\* Go's a & b on non-negative integers; -1 & 0 is 0.
BitAnd(a, b) ==
    IF a <= 0 \/ b <= 0 THEN 0
    ELSE (IF a % 2 = 1 /\ b % 2 = 1 THEN 1 ELSE 0) + 2 * BitAnd(a \div 2, b \div 2)

\* libsquare.IsPowerOfTwo: v&(v-1) == 0 && v != 0
IsPowerOfTwo(v) == BitAnd(v, v - 1) = 0 /\ v # 0

\* int(math.Ceil(math.Sqrt(float64(n))))
CeilSqrt(n) == CHOOSE r \in 0..n : r * r >= n /\ (r = 0 \/ (r - 1) * (r - 1) < n)

RECURSIVE RoundUpFrom(_, _)
RoundUpFrom(result, input) ==
    IF result < input THEN RoundUpFrom(2 * result, input) ELSE result
\* inclusion.RoundUpPowerOfTwo: doubles 1 until it is no less than the input.
RoundUpPowerOfTwo(input) == RoundUpFrom(1, input)

\* libsquare.Size: the side of the smallest power-of-two square holding len.
Size(len) == RoundUpPowerOfTwo(CeilSqrt(len))

\* rsmt2d.ComputeExtendedDataSquare: the chunks must form a square; the
\* result is twice as wide.
ComputeExtendedDataSquare(s) ==
    LET w == CeilSqrt(Len(s))
    IN  IF w * w # Len(s) THEN [eds |-> NilEDS, err |-> "rsmt2d"]
        ELSE [eds |-> EDS(2 * w, FALSE), err |-> NoErr]

\* extendShares: (eds, err), with the calls of the coder it made and the
\* square size it gave the tree constructor.
extendShares_NoCheck(s) ==
    LET r == ComputeExtendedDataSquare(s)
    IN  [eds |-> r.eds, err |-> r.err, coderCalls |-> 1, squareSize |-> Size(Len(s))]
extendShares(s) ==
    IF ~IsPowerOfTwo(Len(s))
    THEN [eds |-> NilEDS, err |-> "notPowerOfTwo", coderCalls |-> 0, squareSize |-> 0]
    ELSE LET squareSize == Size(Len(s))
             r == ComputeExtendedDataSquare(s)
         IN  [eds |-> r.eds, err |-> r.err, coderCalls |-> 1, squareSize |-> squareSize]

\* -------------------------------------------------------------- extendBlock
\* app.IsEmptyBlockRef: no transactions, whatever the app version.
IsEmptyBlockRef(txs) == Len(txs) = 0

\* share.EmptyEDS: the precomputed square of the empty block, not nil.
EmptyEDS == EDS(2, TRUE)

\* libsquare.Construct: one share per transaction, padded to a power-of-two
\* square; fails when the transactions do not fit the largest square.
Construct(txs, maxSquareSize) ==
    IF Len(txs) > maxSquareSize * maxSquareSize
    THEN [square |-> <<>>, err |-> "construct"]
    ELSE LET k == Size(Len(txs))
         IN  [square |-> [i \in 1..(k * k) |-> IF i <= Len(txs) THEN txs[i] ELSE 0],
              err |-> NoErr]

NotExtended ==
    [ran |-> FALSE, eds |-> NilEDS, err |-> NoErr, constructCalls |-> 0,
     coderCalls |-> 0, wasEmpty |-> FALSE]

extendBlock(txs) ==
    IF IsEmptyBlockRef(txs)
    THEN [ran |-> TRUE, eds |-> EmptyEDS, err |-> NoErr, constructCalls |-> 0,
          coderCalls |-> 0, wasEmpty |-> TRUE]
    ELSE LET c == Construct(txs, SquareSizeUpperBound)
         IN  IF c.err # NoErr
             THEN [ran |-> TRUE, eds |-> NilEDS, err |-> c.err, constructCalls |-> 1,
                   coderCalls |-> 0, wasEmpty |-> FALSE]
             ELSE LET r == extendShares(c.square)
                  IN  [ran |-> TRUE, eds |-> r.eds, err |-> r.err, constructCalls |-> 1,
                       coderCalls |-> r.coderCalls, wasEmpty |-> FALSE]

\* ------------------------------------------------------- makeExtendedHeader
\* da.MinDataAvailabilityHeader: the fixed header of the minimal square.
MinDataAvailabilityHeader == [roots |-> 2, from |-> "min"]

\* da.NewDataAvailabilityHeader: row and column roots of the square; the
\* square must be within the allowed sizes.
NewDataAvailabilityHeader(eds) ==
    IF eds.width < 2 \/ eds.width > 2 * SquareSizeUpperBound
    THEN [dah |-> [roots |-> 0, from |-> "none"], err |-> "dah"]
    ELSE [dah |-> [roots |-> eds.width, from |-> "new"], err |-> NoErr]

NilEH == [nil |-> TRUE, Height |-> 0, DAH |-> [roots |-> 0, from |-> "none"]]

makeExtendedHeader(h, eds) ==
    IF eds.nil
    THEN [eh |-> [nil |-> FALSE, Height |-> h, DAH |-> MinDataAvailabilityHeader],
          err |-> NoErr]
    ELSE LET r == NewDataAvailabilityHeader(eds)
         IN  IF r.err # NoErr THEN [eh |-> NilEH, err |-> r.err]
             ELSE [eh |-> [nil |-> FALSE, Height |-> h, DAH |-> r.dah], err |-> NoErr]

\* ------------------------------------------------------------------ GetCell
\* rsmt2d's GetCell indexes the square's rows without a range check: a nil
\* square or an index past the width is a run-time panic.
GetCell(eds, row, col) ==
    IF eds.nil \/ row >= eds.width \/ col >= eds.width
    THEN [outcome |-> "panic", row |-> row, col |-> col]
    ELSE [outcome |-> "share", row |-> row, col |-> col]

\* ==================================================================== state
VARIABLES
    pc,       \* where main is: "main", "dispatch", "recv", "block", "eds", "exit"
    args,     \* os.Args[1:]: [argc, cmd, height]
    exit,     \* exit status of the process, Running while it runs
    out,      \* what fmt.Println printed, in order
    req,      \* Height of the BlockByHeightRequest sent (0: none sent)
    wire,     \* commit and validator-set payloads of the first response
    flags,    \* IsLast of every response Recv returned, in order
    recvErr,  \* a Recv returned an error (io.EOF included)
    parts,    \* receiveBlockByHeight's parts slice
    ptb,      \* the call of partsToBlock
    signed,   \* the *SignedBlock getSignedBlock returned
    ext,      \* the call of extendBlock
    eh,       \* the *ExtendedHeader makeExtendedHeader returned
    cell,     \* the call of eds.GetCell
    stages,   \* the stages main ran, each with the error it returned
    sh        \* extendShares on its own: the shares and the result

vars == <<pc, args, exit, out, req, wire, flags, recvErr, parts, ptb, signed,
          ext, eh, cell, stages, sh>>

Commands == {"eds", "share", "blob", "block", "other"}

\* The argument vectors: none, the address alone, every command without and
\* with a height, and share with one and two indices.  Arguments past the
\* last one a command reads are never looked at.
ArgShapes ==
    {<<0, "other">>, <<1, "other">>}
    \cup {<<n, c>> : n \in 2..3, c \in Commands}
    \cup {<<n, "share">> : n \in 4..MaxArgs}
HeightToks == {Text} \cup {Num(h) : h \in Byte \ {0}}
CoordToks == {Text} \cup {Num(v) : v \in (-1)..MaxCoord}

NilSigned == [nil |-> TRUE, Height |-> 0, Txs |-> <<>>, Commit |-> "nil", ValidatorSet |-> "nil"]
NoCell == [called |-> FALSE, outcome |-> "none", row |-> 0, col |-> 0]
NoShares == [s |-> <<>>, ran |-> FALSE, eds |-> NilEDS, err |-> NoErr,
             coderCalls |-> 0, squareSize |-> 0]

Idle ==
    /\ exit = Running
    /\ out = <<>>
    /\ req = 0
    /\ wire = [commit |-> "nil", valset |-> "nil"]
    /\ flags = <<>>
    /\ recvErr = FALSE
    /\ parts = <<>>
    /\ ptb = NoCall
    /\ signed = NilSigned
    /\ ext = NotExtended
    /\ eh = NilEH
    /\ cell = NoCell
    /\ stages = <<>>

Init ==
    /\ pc = "main"
    /\ \E a \in ArgShapes, h \in HeightToks :
          args = [argc |-> a[1], cmd |-> a[2], height |-> h]
    /\ Idle
    /\ sh = NoShares

\* if err != nil { fmt.Println(err); os.Exit(1) }
ExitOnErr_Continue(err) == Running
ExitOnErr(err) == IF err # NoErr THEN 1 ELSE Running
Println(o, err) == IF err # NoErr THEN Append(o, err) ELSE o

Stage(name, err) == [name |-> name, err |-> err]

\* An index past the end of args, a nil dereference: the process panics.
Panic(o) ==
    /\ exit' = PanicExit
    /\ out' = o
    /\ pc' = "exit"

\* getSignedBlock hands (blk, err) to main, which prints and exits on error.
GetReturn(blk, err, o) ==
    /\ signed' = blk
    /\ stages' = Append(stages, Stage("getSignedBlock", err))
    /\ exit' = ExitOnErr(err)
    /\ out' = Println(o, err)
    /\ pc' = "block"

\* main up to the command switch: no arguments exits 0, a failed
\* NewCoreAccessor prints the error and exits 1.
Main ==
    /\ pc = "main" /\ exit = Running
    /\ IF args.argc = 0
       THEN exit' = 0 /\ out' = out /\ pc' = "exit"
       ELSE \E dial \in {NoErr, "dial"} :
               /\ exit' = IF dial # NoErr THEN 1 ELSE Running
               /\ out' = Println(out, dial)
               /\ pc' = IF dial # NoErr THEN "exit" ELSE "dispatch"
    /\ UNCHANGED <<args, req, wire, flags, recvErr, parts, ptb, signed, ext, eh,
                   cell, stages, sh>>

\* switch args[1], and for eds, share and block the start of getSignedBlock:
\* Atoi of args[2] and the BlockByHeight call that opens the stream.
Dispatch ==
    /\ pc = "dispatch" /\ exit = Running
    /\ IF args.argc < 2
       THEN Panic(out) /\ UNCHANGED <<req, signed, stages>>
       ELSE IF args.cmd \in {"blob", "other"}
       THEN /\ exit' = 0
            /\ out' = IF args.cmd = "blob" THEN Append(out, "blob") ELSE out
            /\ pc' = "exit"
            /\ UNCHANGED <<req, signed, stages>>
       ELSE IF args.argc < 3
       THEN Panic(Append(out, args.cmd)) /\ UNCHANGED <<req, signed, stages>>
       ELSE LET height == Atoi(args.height)
                o == Append(out, args.cmd)
            IN  IF height.err # NoErr
                THEN GetReturn(NilSigned, height.err, o) /\ req' = req
                ELSE \E rpc \in {NoErr, "rpc"} :
                        IF rpc # NoErr
                        THEN GetReturn(NilSigned, rpc, o) /\ req' = height.val
                        ELSE /\ req' = height.val
                             /\ pc' = "recv"
                             /\ out' = o
                             /\ UNCHANGED <<exit, signed, stages>>
    /\ UNCHANGED <<args, wire, flags, recvErr, parts, ptb, ext, eh, cell, sh>>

\* The rest of receiveBlockByHeight once the last part is in: partsToBlock
\* and the SignedBlock built from its block.
Reassemble(ps, commit, validatorSet) ==
    LET r == partsToBlock(ps)
    IN  /\ ptb' = r
        /\ IF ~r.returned
           THEN Panic(out) /\ UNCHANGED <<signed, stages>>
           ELSE IF r.err # NoErr
           THEN GetReturn(NilSigned, r.err, out)
           ELSE IF r.block.nil
           THEN Panic(out) /\ UNCHANGED <<signed, stages>>
           ELSE GetReturn([nil |-> FALSE, Height |-> r.block.Height,
                           Txs |-> r.block.Txs, Commit |-> commit,
                           ValidatorSet |-> validatorSet], NoErr, out)

\* streamer.Recv fails (an error or io.EOF): receiveBlockByHeight returns it.
RecvFail ==
    /\ pc = "recv" /\ exit = Running
    /\ recvErr' = TRUE
    /\ GetReturn(NilSigned, "recv", out)
    /\ UNCHANGED <<args, req, wire, flags, parts, ptb, ext, eh, cell, sh>>

\* The first streamer.Recv: the commit and the validator set are decoded, the
\* part is kept, and a part marked last is reassembled at once.
RecvFirst ==
    /\ pc = "recv" /\ exit = Running /\ flags = <<>>
    /\ \E c \in WireMeta, v \in WireMeta, p \in WireParts, last \in BOOLEAN :
          /\ wire' = [commit |-> c, valset |-> v]
          /\ flags' = <<last>>
          /\ IF FirstPartErr(c, v) # NoErr
             THEN GetReturn(NilSigned, FirstPartErr(c, v), out)
                  /\ UNCHANGED <<parts, ptb>>
             ELSE /\ parts' = <<p>>
                  /\ IF last
                     THEN Reassemble(<<p>>, c, v)
                     ELSE UNCHANGED <<pc, exit, out, signed, stages, ptb>>
    /\ UNCHANGED <<args, req, recvErr, ext, eh, cell, sh>>

\* A later streamer.Recv in the loop "for !isLast".
RecvNext ==
    /\ pc = "recv" /\ exit = Running /\ flags # <<>>
    /\ Len(parts) < MaxParts
    /\ \E p \in WireParts, last \in BOOLEAN :
          /\ flags' = Append(flags, last)
          /\ parts' = Append(parts, p)
          /\ IF last
             THEN Reassemble(Append(parts, p), wire.commit, wire.valset)
             ELSE UNCHANGED <<pc, exit, out, signed, stages, ptb>>
    /\ UNCHANGED <<args, req, wire, recvErr, ext, eh, cell, sh>>

\* case "block": fmt.Println(block); os.Exit(0)
PrintBlock ==
    /\ pc = "block" /\ exit = Running /\ args.cmd = "block"
    /\ out' = Append(out, "SignedBlock")
    /\ exit' = 0
    /\ pc' = "exit"
    /\ UNCHANGED <<args, req, wire, flags, recvErr, parts, ptb, signed, ext, eh,
                   cell, stages, sh>>

\* eds, err := extendBlock(block.Data, block.Header.Version.App)
ExtendBlock ==
    /\ pc = "block" /\ exit = Running /\ args.cmd \in {"eds", "share"}
    /\ IF signed.nil
       THEN Panic(out) /\ UNCHANGED <<ext, stages>>
       ELSE LET r == extendBlock(signed.Txs)
            IN  /\ ext' = r
                /\ stages' = Append(stages, Stage("extendBlock", r.err))
                /\ exit' = ExitOnErr(r.err)
                /\ out' = Println(out, r.err)
                /\ pc' = "eds"
    /\ UNCHANGED <<args, req, wire, flags, recvErr, parts, ptb, signed, eh, cell, sh>>

\* case "eds": makeExtendedHeader, fmt.Println(eh), os.Exit(0)
MakeExtendedHeader ==
    /\ pc = "eds" /\ exit = Running /\ args.cmd = "eds"
    /\ LET r == makeExtendedHeader(signed.Height, ext.eds)
       IN  /\ eh' = r.eh
           /\ stages' = Append(stages, Stage("makeExtendedHeader", r.err))
           /\ exit' = IF ExitOnErr(r.err) = Running THEN 0 ELSE ExitOnErr(r.err)
           /\ out' = IF ExitOnErr(r.err) = Running
                     THEN Append(Println(out, r.err), "ExtendedHeader")
                     ELSE Println(out, r.err)
           /\ pc' = "exit"
    /\ UNCHANGED <<args, req, wire, flags, recvErr, parts, ptb, signed, ext, cell, sh>>

\* case "share": Atoi of args[3] and args[4], then eds.GetCell(uint(r), uint(c))
Share ==
    /\ pc = "eds" /\ exit = Running /\ args.cmd = "share"
    /\ pc' = "exit"
    /\ IF args.argc < 4
       THEN exit' = PanicExit /\ UNCHANGED <<out, cell>>
       ELSE \E rt \in CoordToks :
          LET r == Atoi(rt)
          IN  IF r.err # NoErr
              THEN exit' = 1 /\ out' = Println(out, r.err) /\ cell' = cell
              ELSE IF args.argc < 5
              THEN exit' = PanicExit /\ UNCHANGED <<out, cell>>
              ELSE \E ct \in CoordToks :
                 LET c == Atoi(ct)
                 IN  IF c.err # NoErr
                     THEN exit' = 1 /\ out' = Println(out, c.err) /\ cell' = cell
                     ELSE LET g == GetCell(ext.eds, ToUint(r.val), ToUint(c.val))
                          IN  /\ cell' = [called |-> TRUE, outcome |-> g.outcome,
                                          row |-> g.row, col |-> g.col]
                              /\ exit' = IF g.outcome = "panic" THEN PanicExit ELSE 0
                              /\ out' = IF g.outcome = "panic" THEN out
                                        ELSE Append(out, "share")
    /\ UNCHANGED <<args, req, wire, flags, recvErr, parts, ptb, signed, ext, eh,
                   stages, sh>>

Next ==
    \/ Main
    \/ Dispatch
    \/ RecvFail
    \/ RecvFirst
    \/ RecvNext
    \/ PrintBlock
    \/ ExtendBlock
    \/ MakeExtendedHeader
    \/ Share

Spec == Init /\ [][Next]_vars

\* ------------------------------------------------- extendShares on its own
ShareLists == UNION {[1..n -> {0, 1}] : n \in 0..MaxShares}

InitShares ==
    /\ pc = "extendShares"
    /\ args = [argc |-> 0, cmd |-> "other", height |-> Text]
    /\ Idle
    /\ \E s \in ShareLists : sh = [NoShares EXCEPT !.s = s]

ExtendShares ==
    /\ pc = "extendShares"
    /\ LET r == extendShares(sh.s)
       IN  sh' = [s |-> sh.s, ran |-> TRUE, eds |-> r.eds, err |-> r.err,
                  coderCalls |-> r.coderCalls, squareSize |-> r.squareSize]
    /\ pc' = "exit"
    /\ UNCHANGED <<args, exit, out, req, wire, flags, recvErr, parts, ptb, signed,
                   ext, eh, cell, stages>>

NextShares == ExtendShares

SpecShares == InitShares /\ [][NextShares]_vars

\* =================================================================== claims
\* The payloads in the order the fragments were received.
ReceiptOrder == Concat([i \in 1..Len(parts) |-> parts[i].Bytes])
\* The fragments declare the indices 0, 1, ... in the order of delivery.
InOrder == \A i \in 1..Len(parts) : ~parts[i].nil /\ parts[i].Index = i - 1
\* Only the last response received so far is marked last.
OnlyLastMarked ==
    /\ flags # <<>>
    /\ flags[Len(flags)]
    /\ \A i \in 1..(Len(flags) - 1) : ~flags[i]
\* getSignedBlock returned an error to main and no block.
GetFailed ==
    /\ signed.nil
    /\ stages # <<>>
    /\ stages[1].name = "getSignedBlock"
    /\ stages[1].err # NoErr

\* C1: a SignedBlock is returned only if the first fragment's commit and
\* validator set both decoded, every Recv up to and including the first
\* fragment marked last succeeded, and such a fragment was received; a stream
\* that ends before a last-marked fragment, or a first fragment whose commit
\* or validator set does not decode, gives an error, no block, and no call of
\* partsToBlock.
C1_NoPartialBlock ==
    /\ ~signed.nil =>
          /\ wire.commit = "valid" /\ wire.valset = "valid"
          /\ ~recvErr
          /\ OnlyLastMarked
          /\ Len(parts) = Len(flags)
          /\ ptb.returned /\ ~ptb.block.nil
    /\ (recvErr \/ (flags # <<>> /\ (wire.commit # "valid" \/ wire.valset # "valid"))) =>
          /\ GetFailed
          /\ ~ptb.called
          /\ exit = 1

\* C1 witness: the stream ended after two fragments, neither marked last.
C1_Witness ==
    /\ recvErr /\ Len(parts) = 2 /\ flags = <<FALSE, FALSE>>
    /\ GetFailed /\ stages[1].err = "recv"

\* C2: when the fragments declare the indices 0..N-1 in delivery order and
\* only the Nth is marked last, exactly N fragments are read and the buffer
\* handed to the deserializer is the concatenation of the N payloads in order.
C2_RoundTrip ==
    (ptb.called /\ InOrder) =>
        /\ ptb.read
        /\ ptb.bz = ReceiptOrder
        /\ Len(flags) = Len(parts)
        /\ OnlyLastMarked

\* C2 witness: a three-fragment body in order, reassembled into a block.
C2_Witness ==
    /\ ptb.called /\ InOrder /\ Len(parts) = MaxParts
    /\ ~signed.nil /\ Len(signed.Txs) = MaxParts - 1

RECURSIVE BytesBelow(_, _)
\* The bytes carried by those of the first n fragments received that declare
\* an index below d.
BytesBelow(d, n) ==
    IF n = 0 THEN 0
    ELSE (IF parts[n].Index < d THEN Len(parts[n].Bytes) ELSE 0) + BytesBelow(d, n - 1)

C4_EmptyShortcut ==
    (ext.ran /\ ~signed.nil /\ IsEmptyBlockRef(signed.Txs)) =>
        /\ ext.eds.nil
        /\ ext.constructCalls = 0 /\ ext.coderCalls = 0
        /\ (~eh.nil => eh.DAH.from = "min")

\* C5: in the eds command the stages run in the order getSignedBlock,
\* extendBlock, makeExtendedHeader, each at most once; a stage that returns
\* an error is the last one run, its error is what is printed, the exit
\* status is 1 and no ExtendedHeader is produced or printed.
StageNames == <<"getSignedBlock", "extendBlock", "makeExtendedHeader">>
C5_StageOrder ==
    args.cmd = "eds" =>
        /\ Len(stages) <= Len(StageNames)
        /\ \A i \in 1..Len(stages) : stages[i].name = StageNames[i]
        /\ \A i \in 1..Len(stages) :
              stages[i].err # NoErr =>
                  /\ i = Len(stages)
                  /\ exit = 1
                  /\ eh.nil
                  /\ out # <<>> /\ out[Len(out)] = stages[i].err
                  /\ \A j \in 1..Len(out) : out[j] # "ExtendedHeader"
        /\ ~eh.nil =>
              /\ Len(stages) = Len(StageNames)
              /\ \A i \in 1..Len(stages) : stages[i].err = NoErr

\* C5 witness: reassembly succeeded, the extension failed, nothing ran after.
C5_Witness ==
    /\ args.cmd = "eds" /\ pc = "eds" /\ exit = 1
    /\ Len(stages) = 2 /\ stages[1].err = NoErr /\ stages[2].err # NoErr

\* C6: the process ends with status 0 or 1 and never by a crash; status 1
\* follows a printed error.
C6_ExitStatus ==
    /\ exit \in {Running, 0, 1}
    /\ exit = 1 => out # <<>>

\* C7: the block getSignedBlock(h) returns has height h.
C7_HeightMatches == ~signed.nil => signed.Height = req

\* C9: a cell access with row or column outside the extended square gives an
\* OutOfRange error; inside it returns a share.
C9_Boundary ==
    cell.called =>
        cell.outcome = IF cell.row < ext.eds.width /\ cell.col < ext.eds.width
                       THEN "share" ELSE "OutOfRange"

\* C10: partsToBlock returns exactly one of a non-nil block and a non-nil
\* error, so the block is never dereferenced while nil.
C10_BlockOrError ==
    ptb.returned => ((~ptb.block.nil) # (ptb.err # NoErr))

\* C8: extendShares returns an error and does not call the coder when the
\* share count is no power of two; when it is one, it calls the coder once,
\* with a tree constructor for the side length that count gives.
C8_PowerOfTwo ==
    sh.ran =>
        LET n == Len(sh.s)
        IN  IF \E e \in 0..n : Pow2(e) = n
            THEN /\ sh.coderCalls = 1
                 /\ \E e \in 0..n : sh.squareSize = Pow2(e)
                 /\ sh.squareSize * sh.squareSize >= n
                 /\ sh.squareSize = 1 \/ (sh.squareSize \div 2) * (sh.squareSize \div 2) < n
            ELSE /\ sh.coderCalls = 0
                 /\ sh.err # NoErr
                 /\ sh.eds.nil

\* C8 witness: three shares are refused before the coder is reached.
C8_Witness == sh.ran /\ Len(sh.s) = 3 /\ sh.err = "notPowerOfTwo"

=============================================================================
